---- MODULE Spec2Model ----
(***************************************************************************)
(* Model of the OLLM provider factory (ollm-provider.ts).                  *)
(*                                                                         *)
(* Strings whose characters matter (base URLs, header names) are          *)
(* sequences of one-character strings; opaque strings (model ids, API      *)
(* keys) are atoms.                                                        *)
(* An optional value is a sequence of length at most one: <<>> is          *)
(* undefined, <<v>> is the value v.                                        *)
(***************************************************************************)
EXTENDS Naturals, Sequences, FiniteSets, TLC

VARIABLES
    env,        \* process.env.OLLM_API_KEY: <<>> (unset) or <<key>>
    providers,  \* provider id -> <<>> (not created) or <<provider object>>
    handles,    \* the model handles handed to the caller, in creation order
    result,     \* what the last call returned or threw
    effects,    \* what the last call did besides computing its result
    rotated,    \* history: the environment variable changed after the newest
                \* handle was built
    requests,   \* the requests in flight: request -> where it is in resolving
                \* its headers
    mappings,   \* the objects the header resolutions have allocated, in
                \* allocation order
    measure,    \* measureLatency: its parameters, locals and position
    stats       \* calculatePercentiles: the caller's array and what it returned

providerVars == <<env, providers, handles, result, effects, rotated>>
vars == <<env, providers, handles, result, effects, rotated,
          requests, mappings, measure, stats>>

-----------------------------------------------------------------------------
(* Bounds *)

MaxLen == 2          \* longest settings.baseURL the caller passes
MaxHandles == 2      \* handles the caller holds at once
MaxRequests == 2     \* requests in flight at once
MaxNumRequests == 5  \* largest numRequests given to measureLatency
MaxConcurrency == 3  \* largest concurrency given to measureLatency
MaxSamples == 4      \* longest list of which every filling is tried

-----------------------------------------------------------------------------
(* Optional values *)

None == <<>>
Some(v) == <<v>>
IsSome(o) == Len(o) = 1
Get(o) == o[1]

-----------------------------------------------------------------------------
(* Inputs *)

Chars == {"a", "/"}

RECURSIVE StringsOfLen(_)
StringsOfLen(n) ==
    IF n = 0 THEN {<<>>}
    ELSE {Append(s, c) : s \in StringsOfLen(n - 1), c \in Chars}

Strings == UNION {StringsOfLen(n) : n \in 0..MaxLen}

ModelIds == {"gpt-4o", "text-embedding-3-small"}

ApiKeys == {"sk-1"}
EnvKeys == {"env-1"}
\* the values a rotated environment variable goes through
RotationKeys == {"env-1", "env-2"}
\* the request paths the model classes ask a url for, and one without a
\* leading slash
Paths == {<<"/", "c">>, <<"c">>}
FetchFunctions == {"customFetch"}

\* header names, as sequences of characters
NameAuthorization == <<"A", "u", "t", "h", "o", "r", "i", "z", "a", "t", "i", "o", "n">>
NameLowerAuthorization == <<"a", "u", "t", "h", "o", "r", "i", "z", "a", "t", "i", "o", "n">>
NameUserAgent == <<"U", "s", "e", "r", "-", "A", "g", "e", "n", "t">>
NameUpperUserAgent == <<"U", "S", "E", "R", "-", "A", "G", "E", "N", "T">>
NameLowerUserAgent == <<"u", "s", "e", "r", "-", "a", "g", "e", "n", "t">>
NameXCustomHeader == <<"X", "-", "C", "u", "s", "t", "o", "m", "-", "H", "e", "a", "d", "e", "r">>
NameLowerXCustomHeader == <<"x", "-", "c", "u", "s", "t", "o", "m", "-", "h", "e", "a", "d", "e", "r">>

\* the `headers` mappings a caller passes: header name -> value (a sequence
\* of space-separated words)
\* (an object is the sequence of its <<name, value>> entries, in insertion order)
CallerHeaders == {
    << <<NameXCustomHeader, <<"custom-value">> >> >>
}

\* a base URL without and with a trailing slash
BaseURLs == {<<"a">>, <<"a", "/">>}

\* OLLMProviderSettings: every field optional
Settings ==
    [apiKey  : {None} \cup {Some(k) : k \in ApiKeys},
     baseURL : {None} \cup {Some(u) : u \in BaseURLs},
     headers : {None} \cup {Some(h) : h \in CallerHeaders},
     fetch   : {None} \cup {Some(f) : f \in FetchFunctions}]

\* the settings that give every string up to MaxLen as the base URL
URLSettings ==
    [apiKey  : {None},
     baseURL : {Some(u) : u \in Strings},
     headers : {None},
     fetch   : {None}]

\* `headers` mappings that name Authorization (in either letter case) or
\* User-Agent, beside one that does not
AuthorizationHeaders ==
    << <<NameAuthorization, <<"Basic", "caller">> >>,
       <<NameXCustomHeader, <<"custom-value">> >> >>
LowerAuthorizationHeaders == << <<NameLowerAuthorization, <<"Basic", "caller">> >> >>
UserAgentHeaders ==
    << <<NameUserAgent, <<"my-app/1.0">> >>,
       <<NameXCustomHeader, <<"custom-value">> >> >>

UpperUserAgentHeaders == << <<NameUpperUserAgent, <<"my-app/1.0">> >> >>

\* the settings that decide the headers: the key and the caller's headers
HeaderSettings ==
    [apiKey  : {None} \cup {Some(k) : k \in ApiKeys},
     baseURL : {None},
     headers : {None} \cup {Some(h) : h \in CallerHeaders \cup
                    {AuthorizationHeaders, LowerAuthorizationHeaders, UserAgentHeaders,
                     UpperUserAgentHeaders}},
     fetch   : {None}]

\* a settings object with every field set, which the caller changes later
MutableSettings ==
    {[apiKey |-> Some("sk-1"), baseURL |-> Some(<<"a", "/">>),
      headers |-> Some(h), fetch |-> Some("customFetch")] : h \in CallerHeaders}

\* settings with and without a key, with headers of the caller's
RequestSettings ==
    {[apiKey |-> Some("sk-1"), baseURL |-> None,
      headers |-> Some(UserAgentHeaders), fetch |-> None],
     [apiKey |-> None, baseURL |-> None,
      headers |-> Some(AuthorizationHeaders), fetch |-> None]}

\* JSON values, and `undefined` for a property an object does not have
Undefined == [kind |-> "undefined", s |-> ""]
Null == [kind |-> "null", s |-> ""]
Number == [kind |-> "number", s |-> ""]
String(s) == [kind |-> "string", s |-> s]

\* what a property of a response body may hold
PropertyValues == {Undefined, Null, Number, String("m")}

\* the objects a response body may have as its `error` property
ErrorObjects ==
    [kind : {"object"}, message : PropertyValues \cup {String("")},
     type : PropertyValues, param : PropertyValues, code : PropertyValues,
     status : {Undefined, Number}]

\* the bodies of failed responses: objects with any `error` property, and
\* values that are no objects
Bodies ==
    {Null, Number, String("m")}
        \cup [kind : {"object"}, error : PropertyValues \cup ErrorObjects]

\* settings that differ from those of the default instance in every field,
\* and settings that differ in the base URL alone
DifferentSettings ==
    MutableSettings \cup
        {[apiKey |-> None, baseURL |-> Some(<<"a">>), headers |-> None,
          fetch |-> None]}

\* createOLLM(options = {}): the settings of a call without arguments
EmptySettings == [apiKey |-> None, baseURL |-> None, headers |-> None, fetch |-> None]

ProviderIds == {"ollm", "p1"}

-----------------------------------------------------------------------------
(* Program constants *)

\* 'https://api.ollm.com/v1', the default the README's option table gives
readmeBaseURL ==
    <<"h","t","t","p","s",":","/","/","a","p","i",".","o","l","l","m",".",
      "c","o","m","/","v","1">>

\* 'http://localhost:4000/v1'
defaultBaseURL ==
    <<"h","t","t","p",":","/","/","l","o","c","a","l","h","o","s","t",":",
      "4","0","0","0","/","v","1">>

\* faulty variant: the provider has no imageModel
providerMembersWithoutImageModel ==
    {"completionModel", "chatModel", "languageModel", "embeddingModel",
     "textEmbeddingModel"}

\* the properties of the provider object that createOLLM sets to functions
providerMembers ==
    {"completionModel", "chatModel", "languageModel", "embeddingModel",
     "textEmbeddingModel", "imageModel"}

\* `ai-sdk/ollm/${VERSION}`, VERSION being "1.0.0" in the build
userAgentSuffix == "ai-sdk/ollm/1.0.0"

-----------------------------------------------------------------------------
(* Errors and results *)

NoError == [name |-> "none"]
NoSuchModelError(modelId, modelType) ==
    [name |-> "NoSuchModelError", modelId |-> modelId, modelType |-> modelType]
LoadAPIKeyError == [name |-> "LoadAPIKeyError"]

\* the outcome of a call: what it returned or threw, and `effects`, what it
\* did on the way: "env" for a read of process.env.OLLM_API_KEY, "getHeaders"
\* for a call of the header closure, "fetch" for a call of the transport
Returned(v) == [threw |-> FALSE, value |-> v, error |-> NoError, effects |-> {}]
Threw(e) == [threw |-> TRUE, value |-> None, error |-> e, effects |-> {}]

\* the outcome r of a call that did `done` before it came to r
Doing(done, r) == [r EXCEPT !.effects = done \cup @]

-----------------------------------------------------------------------------
(* @ai-sdk/provider-utils, as called by createOLLM *)

\* url?.replace(/\/$/, ''): one slash at the end of the string is removed
withoutTrailingSlash(url) ==
    IF Len(url) > 0 /\ url[Len(url)] = "/"
    THEN SubSeq(url, 1, Len(url) - 1)
    ELSE url

\* loadApiKey({apiKey, environmentVariableName: 'OLLM_API_KEY'}): the explicit
\* key when it is a string, else the environment variable, else an error
\* (process.env is read only when the explicit key is not a string)
loadApiKey(apiKey) ==
    IF IsSome(apiKey) THEN Returned(Get(apiKey))
    ELSE Doing({"env"}, IF IsSome(env) THEN Returned(Get(env))
                        ELSE Threw(LoadAPIKeyError))

\* the lower-case letter of an upper-case letter, every other character
\* itself (header names are ASCII)
toLowerCaseChar(c) ==
    CASE c = "A" -> "a"
      [] c = "B" -> "b"
      [] c = "C" -> "c"
      [] c = "D" -> "d"
      [] c = "E" -> "e"
      [] c = "F" -> "f"
      [] c = "G" -> "g"
      [] c = "H" -> "h"
      [] c = "I" -> "i"
      [] c = "J" -> "j"
      [] c = "K" -> "k"
      [] c = "L" -> "l"
      [] c = "M" -> "m"
      [] c = "N" -> "n"
      [] c = "O" -> "o"
      [] c = "P" -> "p"
      [] c = "Q" -> "q"
      [] c = "R" -> "r"
      [] c = "S" -> "s"
      [] c = "T" -> "t"
      [] c = "U" -> "u"
      [] c = "V" -> "v"
      [] c = "W" -> "w"
      [] c = "X" -> "x"
      [] c = "Y" -> "y"
      [] c = "Z" -> "z"
      [] OTHER -> c

\* Headers are case-insensitive: normalizeHeaders keys them by key.toLowerCase()
toLowerCase(name) == [i \in 1..Len(name) |-> toLowerCaseChar(name[i])]

\* the entries of object `obj` followed by those of `more`: { ...obj, ...more }
\* (a name that obj already has keeps its place and takes the later value)
RECURSIVE spread(_, _)
spread(obj, more) ==
    IF more = <<>> THEN obj
    ELSE LET e == Head(more)
             has == \E i \in 1..Len(obj) : obj[i][1] = e[1]
             put == IF has
                    THEN [i \in 1..Len(obj) |-> IF obj[i][1] = e[1] THEN e ELSE obj[i]]
                    ELSE Append(obj, e)
         IN spread(put, Tail(more))

\* normalizeHeaders and withUserAgentSuffix are imported from
\* @ai-sdk/provider-utils, in the version that belongs to the AI SDK the
\* README names (v6.0.39, with the ProviderV3 interfaces the provider
\* implements): withUserAgentSuffix reads the object with normalizeHeaders,
\* so of two entries whose names differ in letter case only the later one
\* stays.

\* normalizeHeaders: lower-cased name -> the value of the last entry with that name
normalizeHeaders(obj) ==
    [n \in {toLowerCase(obj[i][1]) : i \in 1..Len(obj)} |->
        LET last == CHOOSE i \in 1..Len(obj) :
                        /\ toLowerCase(obj[i][1]) = n
                        /\ \A j \in 1..Len(obj) : toLowerCase(obj[j][1]) = n => j <= i
        IN obj[last][2]]

\* withUserAgentSuffix(headers, suffix): the normalized headers with `suffix`
\* appended to the user-agent words ([current, suffix].filter(Boolean).join(' '))
withUserAgentSuffix(obj, suffix) ==
    LET normalized == normalizeHeaders(obj)
        current == IF NameLowerUserAgent \in DOMAIN normalized
                   THEN normalized[NameLowerUserAgent] ELSE <<>>
    IN [n \in DOMAIN normalized \cup {NameLowerUserAgent} |->
            IF n = NameLowerUserAgent THEN Append(current, suffix) ELSE normalized[n]]

-----------------------------------------------------------------------------
(* zod, as used by ollmErrorSchema: whether a schema accepts a value.       *)
(* `accepts` is whether the schema that is made optional or nullable        *)
(* accepts the value.                                                       *)

zString(v) == v.kind = "string"
zOptional(accepts, v) == v.kind = "undefined" \/ accepts
zNullable(accepts, v) == v.kind = "null" \/ accepts

\* faulty variant: param and code are not nullable
ollmErrorSchemaNotNullable(body) ==
    /\ body.kind = "object"
    /\ body.error.kind = "object"
    /\ zString(body.error.message)
    /\ zOptional(zString(body.error.type), body.error.type)
    /\ zOptional(zString(body.error.param), body.error.param)
    /\ zOptional(zString(body.error.code), body.error.code)

\* z.object({error: z.object({message, type, param, code})}): properties the
\* schema does not name are ignored
ollmErrorSchema(body) ==
    /\ body.kind = "object"
    /\ body.error.kind = "object"
    /\ zString(body.error.message)
    /\ zOptional(zString(body.error.type), body.error.type)
    /\ zOptional(zNullable(zString(body.error.param), body.error.param),
                 body.error.param)
    /\ zOptional(zNullable(zString(body.error.code), body.error.code),
                 body.error.code)

\* errorToMessage: data => data.error.message
errorToMessage(data) == data.error.message.s

\* the model class parsing the body of a failed response with the handle's
\* errorStructure: rejected, or accepted with the message it surfaces
parseError(body) ==
    IF ollmErrorSchema(body)
    THEN [success |-> TRUE, message |-> errorToMessage(body)]
    ELSE [success |-> FALSE, message |-> ""]

-----------------------------------------------------------------------------
(* createOLLM and its closures.  `options` is the settings object the       *)
(* closures capture; `baseURL` the constant createOLLM computed.            *)

\* faulty variant: the environment variable wins over the apiKey setting
getHeadersEnvironmentFirst(options) ==
    LET key == loadApiKey(IF IsSome(env) THEN env ELSE options.apiKey)
    IN IF key.threw THEN Doing({"getHeaders"} \cup key.effects, Threw(key.error))
       ELSE Doing({"getHeaders"} \cup key.effects, Returned(withUserAgentSuffix(
                spread(<< <<NameAuthorization, <<"Bearer", key.value>> >> >>,
                       IF IsSome(options.headers) THEN Get(options.headers) ELSE <<>>),
                userAgentSuffix)))

\* faulty variant: Authorization is written after the caller's headers
getHeadersAuthorizationLast(options) ==
    LET key == loadApiKey(options.apiKey)
    IN IF key.threw THEN Doing({"getHeaders"} \cup key.effects, Threw(key.error))
       ELSE Doing({"getHeaders"} \cup key.effects, Returned(withUserAgentSuffix(
                spread(IF IsSome(options.headers) THEN Get(options.headers) ELSE <<>>,
                       << <<NameLowerAuthorization, <<"Bearer", key.value>> >> >>),
                userAgentSuffix)))

\* faulty variant: the user agent is set to the suffix alone
getHeadersReplacingUserAgent(options) ==
    LET key == loadApiKey(options.apiKey)
    IN IF key.threw THEN Doing({"getHeaders"} \cup key.effects, Threw(key.error))
       ELSE Doing({"getHeaders"} \cup key.effects, Returned(withUserAgentSuffix(
                spread(spread(<< <<NameAuthorization, <<"Bearer", key.value>> >> >>,
                              IF IsSome(options.headers) THEN Get(options.headers)
                              ELSE <<>>),
                       << <<NameLowerUserAgent, <<>> >> >>),
                userAgentSuffix)))

\* const getHeaders = () => withUserAgentSuffix({Authorization, ...options.headers}, ...)
getHeaders(options) ==
    LET key == loadApiKey(options.apiKey)
    IN IF key.threw THEN Doing({"getHeaders"} \cup key.effects, Threw(key.error))
       ELSE Doing({"getHeaders"} \cup key.effects, Returned(withUserAgentSuffix(
                spread(<< <<NameAuthorization, <<"Bearer", key.value>> >> >>,
                       IF IsSome(options.headers) THEN Get(options.headers) ELSE <<>>),
                userAgentSuffix)))

\* faulty variant: the API key is resolved once, while the provider is built
createOLLMCachingKey(options) ==
    Returned([options |-> [options EXCEPT !.apiKey =
                              IF IsSome(options.apiKey) THEN options.apiKey ELSE env],
              baseURL |-> withoutTrailingSlash(
                              IF IsSome(options.baseURL) THEN Get(options.baseURL)
                              ELSE defaultBaseURL),
              specificationVersion |-> "v3",
                   members |-> providerMembers])

\* faulty variant: the API key is loaded while the provider is built
createOLLMLoadingKey(options) ==
    LET key == loadApiKey(options.apiKey)
    IN IF key.threw THEN key
       ELSE Doing(key.effects,
                  Returned([options |-> options,
                            baseURL |-> withoutTrailingSlash(
                                 IF IsSome(options.baseURL) THEN Get(options.baseURL)
                                 ELSE defaultBaseURL),
                            specificationVersion |-> "v3",
                            members |-> providerMembers]))

\* faulty variant: the base URL is stored as given
createOLLMNotStripping(options) ==
    Returned([options |-> options,
              baseURL |-> IF IsSome(options.baseURL) THEN Get(options.baseURL)
                          ELSE defaultBaseURL,
              specificationVersion |-> "v3",
                   members |-> providerMembers])

\* faulty variant: the base URL is stripped twice, so that two trailing
\* slashes are removed
createOLLMStrippingTwice(options) ==
    Returned([options |-> options,
              baseURL |-> withoutTrailingSlash(withoutTrailingSlash(
                              IF IsSome(options.baseURL) THEN Get(options.baseURL)
                              ELSE defaultBaseURL)),
              specificationVersion |-> "v3",
                   members |-> providerMembers])

\* createOLLM(options): the provider object, its closures' captured state
createOLLM(options) ==
    Returned([options |-> options,
              baseURL |-> withoutTrailingSlash(
                              IF IsSome(options.baseURL) THEN Get(options.baseURL)
                              ELSE defaultBaseURL),
              specificationVersion |-> "v3",
                   members |-> providerMembers])

\* faulty variant: the transport override is not passed on
getCommonModelConfigWithoutFetch(p, modelType) ==
    [provider |-> IF modelType = "chat" THEN "ollm.chat" ELSE "ollm.completion",
     url      |-> Get(providers[p]).baseURL,
     headers  |-> p,
     fetch    |-> None]

\* faulty variant: the configuration is that of the default instance,
\* whichever provider builds the handle
getCommonModelConfigOfDefaultInstance(p, modelType) ==
    [provider |-> IF modelType = "chat" THEN "ollm.chat" ELSE "ollm.completion",
     url      |-> Get(providers["ollm"]).baseURL,
     headers  |-> "ollm",
     fetch    |-> Get(providers["ollm"]).options.fetch]

\* `ollm.${modelType}`
providerTag(modelType) ==
    CASE modelType = "chat" -> "ollm.chat"
      [] modelType = "completion" -> "ollm.completion"
      [] modelType = "embedding" -> "ollm.embedding"

\* getCommonModelConfig(modelType) of provider p: `url` is the closure over
\* p's baseURL, `headers` is p's getHeaders closure
getCommonModelConfig(p, modelType) ==
    [provider |-> providerTag(modelType),
     url      |-> Get(providers[p]).baseURL,
     headers  |-> p,
     fetch    |-> Get(providers[p]).options.fetch]

\* faulty variant: a slash is put between the base URL and a path lacking one
buildUrlJoiningWithSlash(baseURL, path) ==
    IF Len(path) > 0 /\ path[1] = "/" THEN baseURL \o path
    ELSE baseURL \o <<"/">> \o path

\* url: ({ path }) => `${baseURL}${path}`
buildUrl(baseURL, path) == baseURL \o path

\* new <class>(modelId, {...config, errorStructure: ollmErrorStructure})
NewModel(class, modelId, config) ==
    [class |-> class, modelId |-> modelId, provider |-> config.provider,
     url |-> config.url, headers |-> config.headers, fetch |-> config.fetch,
     errorStructure |-> "ollmErrorStructure"]

\* faulty variant: the headers are resolved while the handle is built
createChatModelResolvingHeaders(p, modelId) ==
    LET resolved == getHeaders(Get(providers[p]).options)
    IN IF resolved.threw THEN resolved
       ELSE Doing(resolved.effects,
                  Returned(NewModel("OpenAICompatibleChatLanguageModel", modelId,
                                    getCommonModelConfig(p, "chat"))))

\* faulty variant: the transport is called while the handle is built
createChatModelCallingFetch(p, modelId) ==
    Doing({"fetch"},
          Returned(NewModel("OpenAICompatibleChatLanguageModel", modelId,
                            getCommonModelConfig(p, "chat"))))

\* getCommonModelConfig hands the getHeaders closure and options.fetch to the
\* model class without calling either

createChatModel(p, modelId) ==
    Returned(NewModel("OpenAICompatibleChatLanguageModel", modelId,
                      getCommonModelConfig(p, "chat")))

\* faulty variant: the completion handle is configured as a chat handle
createCompletionModelAsChat(p, modelId) ==
    Returned(NewModel("OpenAICompatibleCompletionLanguageModel", modelId,
                      getCommonModelConfig(p, "chat")))

\* faulty variant: the completion handle gets the default base URL and no
\* transport override instead of the provider's
createCompletionModelOwnConfig(p, modelId) ==
    Returned(NewModel("OpenAICompatibleCompletionLanguageModel", modelId,
                      [getCommonModelConfig(p, "completion")
                           EXCEPT !.url = defaultBaseURL, !.fetch = None]))

createCompletionModel(p, modelId) ==
    Returned(NewModel("OpenAICompatibleCompletionLanguageModel", modelId,
                      getCommonModelConfig(p, "completion")))

\* faulty variant: an embedding handle is built
createEmbeddingModelSupported(p, modelId) ==
    Returned(NewModel("OpenAICompatibleEmbeddingModel", modelId,
                      getCommonModelConfig(p, "embedding")))

\* OLLM does not support embedding models
createEmbeddingModel(p, modelId) ==
    Threw(NoSuchModelError(modelId, "embeddingModel"))

\* faulty variants: the member is bound to the completion factory; the image error
\* names the wrong model type
providerAsCompletion(p, modelId) == createCompletionModel(p, modelId)
languageModelAsCompletion(p, modelId) == createCompletionModel(p, modelId)
imageModelWrongType(p, modelId) == Threw(NoSuchModelError(modelId, "embeddingModel"))

\* the members of the provider object
provider(p, modelId) == createChatModel(p, modelId)
chatModel(p, modelId) == createChatModel(p, modelId)
languageModel(p, modelId) == createChatModel(p, modelId)
completionModel(p, modelId) == createCompletionModel(p, modelId)
embeddingModel(p, modelId) == createEmbeddingModel(p, modelId)
textEmbeddingModel(p, modelId) == createEmbeddingModel(p, modelId)
imageModel(p, modelId) == Threw(NoSuchModelError(modelId, "imageModel"))

\* faulty variant: a handle equal to one built before is handed out again
constructMemoised(held, model) ==
    IF \E i \in 1..Len(held) : held[i] = model
    THEN [handles |-> held,
          ref |-> CHOOSE i \in 1..Len(held) : held[i] = model]
    ELSE [handles |-> Append(held, model), ref |-> Len(held) + 1]

\* `new`: the object built is a new one, whatever objects exist already
\* (an object's identity is its place in `handles`)
construct(held, model) ==
    [handles |-> Append(held, model), ref |-> Len(held) + 1]

\* faulty variant: the resolutions write their result into one shared object
allocateShared(heap, object) ==
    IF heap = <<>> THEN [mappings |-> <<object>>, ref |-> 1]
    ELSE [mappings |-> [heap EXCEPT ![1] = object], ref |-> 1]

\* Object.fromEntries(...), with which withUserAgentSuffix builds the record
\* it returns from the literal { Authorization: ..., ...options.headers }
\* that getHeaders evaluates anew at every call: the object built is a new
\* one (an object's identity is its place in `mappings`)
allocate(heap, object) ==
    [mappings |-> Append(heap, object), ref |-> Len(heap) + 1]

-----------------------------------------------------------------------------
(* State machine *)

Created(p) == IsSome(providers[p])

Call(op, p, arg, r) ==
    [op |-> op, p |-> p, arg |-> arg, threw |-> r.threw,
     value |-> r.value, error |-> r.error]

Requests == 1..MaxRequests

\* a request that has not been issued
NoRequest == [pc |-> "idle", h |-> 0, key |-> None, literal |-> <<>>,
              out |-> Returned(0)]

\* measureLatency has not been called
NotMeasuring == [pc |-> "idle"]

\* calculatePercentiles has not been called
NoStats == [pc |-> "idle"]

\* module load: export const ollm = createOLLM()
Init ==
    /\ env \in {None} \cup {Some(k) : k \in EnvKeys}
    /\ LET r == createOLLM(EmptySettings)
       IN /\ providers = [p \in ProviderIds |->
                             IF p = "ollm" /\ ~r.threw THEN Some(r.value) ELSE None]
          /\ result = Call("createOLLM", "ollm", EmptySettings,
                           IF r.threw THEN r ELSE Returned("ollm"))
          /\ effects = r.effects
    /\ handles = <<>>
    /\ rotated = FALSE
    /\ requests = [r \in Requests |-> NoRequest]
    /\ mappings = <<>>
    /\ measure = NotMeasuring
    /\ stats = NoStats

\* the caller's createOLLM(options)
CreateOLLM(options) ==
    /\ ~Created("p1")
    /\ LET r == createOLLM(options)
       IN /\ providers' = IF r.threw THEN providers
                          ELSE [providers EXCEPT !["p1"] = Some(r.value)]
          /\ result' = Call("createOLLM", "p1", options,
                            IF r.threw THEN r ELSE Returned("p1"))
          /\ effects' = r.effects
    /\ UNCHANGED <<env, handles, rotated, requests, mappings, measure, stats>>

\* a call of a member of provider p that returns r: a returned handle is
\* the caller's from then on
Member(op, p, modelId, r) ==
    /\ Created(p)
    /\ op \in {"provider"} \cup Get(providers[p]).members
    /\ Len(handles) < MaxHandles
    /\ handles' = IF r.threw THEN handles ELSE construct(handles, r.value).handles
    /\ result' = Call(op, p, modelId,
                      IF r.threw THEN r
                      ELSE Returned(construct(handles, r.value).ref))
    /\ effects' = r.effects
    /\ rotated' = IF r.threw THEN rotated ELSE FALSE
    /\ UNCHANGED <<env, providers, requests, mappings, measure, stats>>

Provider(p, id) == Member("provider", p, id, provider(p, id))
ChatModel(p, id) == Member("chatModel", p, id, chatModel(p, id))
LanguageModel(p, id) == Member("languageModel", p, id, languageModel(p, id))
CompletionModel(p, id) == Member("completionModel", p, id, completionModel(p, id))
EmbeddingModel(p, id) == Member("embeddingModel", p, id, embeddingModel(p, id))
TextEmbeddingModel(p, id) ==
    Member("textEmbeddingModel", p, id, textEmbeddingModel(p, id))
ImageModel(p, id) == Member("imageModel", p, id, imageModel(p, id))

\* the model class resolves the headers of a request: config.headers()
Headers(h) ==
    /\ h \in 1..Len(handles)
    /\ LET options == Get(providers[handles[h].headers]).options
       IN /\ result' = Call("headers", handles[h].headers, h, getHeaders(options))
          /\ effects' = getHeaders(options).effects
    /\ UNCHANGED <<env, providers, handles, rotated, requests, mappings, measure, stats>>

\* the model class builds the url of a request: config.url({ path })
Url(h, path) ==
    /\ h \in 1..Len(handles)
    /\ result' = Call("url", handles[h].headers, <<h, path>>,
                      Returned(buildUrl(handles[h].url, path)))
    /\ effects' = {}
    /\ UNCHANGED <<env, providers, handles, rotated, requests, mappings, measure, stats>>

\* the environment variable is set, changed or deleted
SetEnv(v) ==
    /\ env' = v
    /\ env' # env
    /\ result' = Call("setEnv", "ollm", v, Returned(None))
    /\ effects' = {}
    /\ rotated' = TRUE
    /\ UNCHANGED <<providers, handles, requests, mappings, measure, stats>>

NextOn(settings, keys) ==
    \/ \E options \in settings : CreateOLLM(options)
    \/ \E p \in ProviderIds, id \in ModelIds : Provider(p, id)
    \/ \E p \in ProviderIds, id \in ModelIds : ChatModel(p, id)
    \/ \E p \in ProviderIds, id \in ModelIds : LanguageModel(p, id)
    \/ \E p \in ProviderIds, id \in ModelIds : CompletionModel(p, id)
    \/ \E p \in ProviderIds, id \in ModelIds : EmbeddingModel(p, id)
    \/ \E p \in ProviderIds, id \in ModelIds : TextEmbeddingModel(p, id)
    \/ \E p \in ProviderIds, id \in ModelIds : ImageModel(p, id)
    \/ \E h \in 1..MaxHandles : Headers(h)
    \/ \E h \in 1..MaxHandles, path \in Paths : Url(h, path)
    \/ \E v \in {None} \cup {Some(k) : k \in keys} : SetEnv(v)

NextWith(settings) == NextOn(settings, EnvKeys)

Next == NextWith(Settings)
Spec == Init /\ [][Next]_vars

\* the same program, the caller passing every base URL up to MaxLen
NextURL == NextWith(URLSettings)
SpecURL == Init /\ [][NextURL]_vars

\* the same program, the caller passing headers of its own and the
\* environment variable going through several values
NextHeaders == NextOn(HeaderSettings, RotationKeys)
SpecHeaders == Init /\ [][NextHeaders]_vars

\* the default instance and a provider with different settings, used side
\* by side for one model id
NextIndependent ==
    \/ \E options \in DifferentSettings : CreateOLLM(options)
    \/ \E p \in ProviderIds : Provider(p, "gpt-4o")
    \/ \E p \in ProviderIds : ChatModel(p, "gpt-4o")
    \/ \E p \in ProviderIds : LanguageModel(p, "gpt-4o")
    \/ \E p \in ProviderIds : CompletionModel(p, "gpt-4o")
    \/ \E p \in ProviderIds : EmbeddingModel(p, "gpt-4o")
    \/ \E p \in ProviderIds : TextEmbeddingModel(p, "gpt-4o")
    \/ \E p \in ProviderIds : ImageModel(p, "gpt-4o")
    \/ \E h \in 1..MaxHandles : Headers(h)
    \/ \E h \in 1..MaxHandles : Url(h, <<"/", "c">>)
    \/ \E v \in {None} \cup {Some(k) : k \in EnvKeys} : SetEnv(v)
SpecIndependent == Init /\ [][NextIndependent]_vars

\* the caller assigns to a field of the settings object it gave createOLLM:
\* `options` is that very object, which the closures read when they run
Mutate(field, v) ==
    /\ Created("p1")
    /\ Get(providers["p1"]).options[field] # v
    /\ providers' = [providers EXCEPT !["p1"] =
                        Some([Get(@) EXCEPT !.options = [@ EXCEPT ![field] = v]])]
    /\ result' = Call("mutate", "p1", <<field, v>>, Returned(None))
    /\ effects' = {}
    /\ UNCHANGED <<env, handles, rotated, requests, mappings, measure, stats>>

\* one provider, one model id, and the settings object changing under it
NextMutate ==
    \/ \E options \in MutableSettings : CreateOLLM(options)
    \/ Provider("p1", "gpt-4o")
    \/ ChatModel("p1", "gpt-4o")
    \/ LanguageModel("p1", "gpt-4o")
    \/ CompletionModel("p1", "gpt-4o")
    \/ \E h \in 1..MaxHandles : Headers(h)
    \/ \E v \in {None} \cup {Some(k) : k \in EnvKeys} : SetEnv(v)
    \/ \E v \in {None, Some("sk-2")} : Mutate("apiKey", v)
    \/ \E v \in {Some(<<"b">>)} : Mutate("baseURL", v)
    \/ \E v \in {None, Some(AuthorizationHeaders)} : Mutate("headers", v)
    \/ \E v \in {None, Some("otherFetch")} : Mutate("fetch", v)
SpecMutate == Init /\ [][NextMutate]_vars

\* the model class of handle h gets a failed response with this body (a
\* parse changes nothing but `result`, so a parse right after another one
\* reaches no state that the first does not reach)
ParseError(h, body) ==
    /\ h \in 1..Len(handles)
    /\ result.op # "parseError"
    /\ handles[h].errorStructure = "ollmErrorStructure"
    /\ result' = Call("parseError", handles[h].headers, <<h, body>>,
                      Returned(parseError(body)))
    /\ effects' = {}
    /\ UNCHANGED <<env, providers, handles, rotated, requests, mappings, measure, stats>>

\* the handles of the default instance and the failed responses they get
NextErrors ==
    \/ ChatModel("ollm", "gpt-4o")
    \/ CompletionModel("ollm", "gpt-4o")
    \/ \E h \in 1..MaxHandles, body \in Bodies : ParseError(h, body)
SpecErrors == Init /\ [][NextErrors]_vars

\* Requests in flight.  A request on handle h calls config.headers(), the
\* getHeaders closure of h's provider; the evaluation of that call is taken
\* apart into the reads and allocations it consists of, and the steps of
\* different requests interleave freely (the run-to-completion order of a
\* JavaScript call is one of the interleavings).

\* the settings object the closure of request r reads
OptionsFor(r) == Get(providers[handles[requests[r].h].headers]).options

\* request r is issued on handle h (requests are numbered in issue order)
Begin(r, h) ==
    /\ requests[r].pc = "idle"
    /\ \A q \in 1..(r - 1) : requests[q].pc # "idle"
    /\ h \in 1..Len(handles)
    /\ requests' = [requests EXCEPT ![r] = [NoRequest EXCEPT !.pc = "loadApiKey", !.h = h]]
    /\ UNCHANGED <<providerVars, mappings, measure, stats>>

\* loadApiKey({apiKey: options.apiKey, ...}) inside the template literal
LoadApiKey(r) ==
    /\ requests[r].pc = "loadApiKey"
    /\ LET key == loadApiKey(OptionsFor(r).apiKey)
       IN requests' = [requests EXCEPT ![r] =
               IF key.threw
               THEN [@ EXCEPT !.pc = "done", !.out = Threw(key.error)]
               ELSE [@ EXCEPT !.pc = "literal", !.key = Some(key.value)]]
    /\ UNCHANGED <<providerVars, mappings, measure, stats>>

\* { Authorization: `Bearer ${key}`, ...options.headers }: an object only this
\* evaluation refers to
ObjectLiteral(r) ==
    /\ requests[r].pc = "literal"
    /\ requests' = [requests EXCEPT ![r] =
            [@ EXCEPT !.pc = "withUserAgentSuffix",
                      !.literal = spread(
                          << <<NameAuthorization, <<"Bearer", Get(requests[r].key)>> >> >>,
                          IF IsSome(OptionsFor(r).headers)
                          THEN Get(OptionsFor(r).headers) ELSE <<>>)]]
    /\ UNCHANGED <<providerVars, mappings, measure, stats>>

\* withUserAgentSuffix(literal, suffix) returns a new object to the request
WithUserAgentSuffix(r) ==
    /\ requests[r].pc = "withUserAgentSuffix"
    /\ LET a == allocate(mappings,
                         withUserAgentSuffix(requests[r].literal, userAgentSuffix))
       IN /\ mappings' = a.mappings
          /\ requests' = [requests EXCEPT ![r] =
                             [@ EXCEPT !.pc = "done", !.out = Returned(a.ref)]]
    /\ UNCHANGED <<providerVars, measure, stats>>

\* two providers with different settings, their handles, and requests on
\* them in flight together
NextRequests ==
    \/ \E options \in RequestSettings : CreateOLLM(options)
    \/ \E p \in ProviderIds : ChatModel(p, "gpt-4o")
    \/ \E r \in Requests, h \in 1..MaxHandles : Begin(r, h)
    \/ \E r \in Requests : LoadApiKey(r)
    \/ \E r \in Requests : ObjectLiteral(r)
    \/ \E r \in Requests : WithUserAgentSuffix(r)
SpecRequests == Init /\ [][NextRequests]_vars

-----------------------------------------------------------------------------
(* perf/performance-test.ts: measureLatency.  A request is named by its     *)
(* number i + j, counted from 0; a measured time is named by the request    *)
(* it was measured for.                                                     *)

\* TEST_MODELS: a model to test
PerfModelIds == {"gpt-4o-mini"}

\* the handles held after k calls of ollm(modelId), one per request of a batch
RECURSIVE modelsOfBatch(_, _, _, _)
modelsOfBatch(held, ollm, modelId, k) ==
    IF k = 0 THEN held
    ELSE construct(modelsOfBatch(held, ollm, modelId, k - 1),
                   provider(ollm, modelId).value).handles

\* faulty variant: every batch has `concurrency` requests
batchSizeUnclamped(concurrency, numRequests, i) == concurrency

\* Math.min(concurrency, numRequests - i)
batchSizeOf(concurrency, numRequests, i) ==
    IF concurrency <= numRequests - i THEN concurrency ELSE numRequests - i

\* the async function of request `id` up to its first await: started, no
\* chunk seen (ttft === null)
StartedRequest(id) == [id |-> id, state |-> "pending", ttft |-> None]

\* the async function of request `id` when ollm(modelId) threw: the catch
\* clause has run
ThrownRequest(id) == [id |-> id, state |-> "settled", ttft |-> None]

\* every promise of the batch is settled (none of them rejects: the function
\* body is one try/catch)
AllSettled(promises) ==
    \A j \in 1..Len(promises) : promises[j].state = "settled"

\* measureLatency(ollm, modelId, modelName, isTEE, numRequests, concurrency)
\* is called: result = {latencies: [], ttftLatencies: [], errors: []}, i = 0
MeasureLatency(ollm, modelId, numRequests, concurrency) ==
    /\ measure.pc = "idle"
    /\ Created(ollm)
    /\ measure' = [pc |-> "for", ollm |-> ollm, modelId |-> modelId,
                   numRequests |-> numRequests,
                   concurrency |-> concurrency, i |-> 0, promises |-> <<>>,
                   latencies |-> <<>>, ttftLatencies |-> <<>>, errors |-> <<>>]
    /\ UNCHANGED <<providerVars, requests, mappings, stats>>

\* i < numRequests: the batch is built, each of its requests is started,
\* and measureLatency awaits Promise.all(promises).  A request starts by
\* calling ollm(modelId), which builds the handle streamText is given; were
\* the call to throw, the request's catch clause would record the error.
StartBatch ==
    /\ measure.pc = "for"
    /\ measure.i < measure.numRequests
    /\ LET batchSize == batchSizeOf(measure.concurrency, measure.numRequests,
                                    measure.i)
           r == provider(measure.ollm, measure.modelId)
           issued == batchSize > 0
       IN /\ measure' = [measure EXCEPT
                 !.pc = "await",
                 !.promises = [j \in 1..batchSize |->
                                  IF r.threw THEN ThrownRequest(measure.i + j - 1)
                                  ELSE StartedRequest(measure.i + j - 1)],
                 !.errors = IF r.threw
                            THEN @ \o [j \in 1..batchSize |-> measure.i + j - 1]
                            ELSE @]
          /\ handles' = IF r.threw THEN handles
                        ELSE modelsOfBatch(handles, measure.ollm, measure.modelId,
                                           batchSize)
          /\ result' = IF ~issued THEN result
                       ELSE Call("provider", measure.ollm, measure.modelId,
                                 IF r.threw THEN r ELSE Returned(Len(handles')))
          /\ effects' = IF issued THEN r.effects ELSE effects
          /\ rotated' = IF issued /\ ~r.threw THEN FALSE ELSE rotated
    /\ UNCHANGED <<env, providers, requests, mappings, stats>>

\* the first chunk of the stream of request j arrives: ttft is set (later
\* chunks change nothing)
Chunk(j) ==
    /\ measure.pc = "await"
    /\ j \in 1..Len(measure.promises)
    /\ measure.promises[j].state = "pending"
    /\ measure.promises[j].ttft = None
    /\ measure' = [measure EXCEPT
            !.promises[j].ttft = Some(measure.promises[j].id)]
    /\ UNCHANGED <<providerVars, requests, mappings, stats>>

\* the stream of request j ends: the total latency is recorded, and the time
\* to the first token if there was a chunk
Complete(j) ==
    /\ measure.pc = "await"
    /\ j \in 1..Len(measure.promises)
    /\ measure.promises[j].state = "pending"
    /\ measure' = [measure EXCEPT
            !.promises[j].state = "settled",
            !.latencies = Append(@, measure.promises[j].id),
            !.ttftLatencies = IF IsSome(measure.promises[j].ttft)
                              THEN Append(@, Get(measure.promises[j].ttft))
                              ELSE @]
    /\ UNCHANGED <<providerVars, requests, mappings, stats>>

\* request j throws, before or after its first chunk: the catch clause
\* records the error
Fail(j) ==
    /\ measure.pc = "await"
    /\ j \in 1..Len(measure.promises)
    /\ measure.promises[j].state = "pending"
    /\ measure' = [measure EXCEPT
            !.promises[j].state = "settled",
            !.errors = Append(@, measure.promises[j].id)]
    /\ UNCHANGED <<providerVars, requests, mappings, stats>>

\* Promise.all(promises) is fulfilled; i += concurrency
BatchSettled ==
    /\ measure.pc = "await"
    /\ AllSettled(measure.promises)
    /\ measure' = [measure EXCEPT !.pc = "for",
                                  !.i = @ + measure.concurrency]
    /\ UNCHANGED <<providerVars, requests, mappings, stats>>

\* i < numRequests is false: measureLatency returns result
Return ==
    /\ measure.pc = "for"
    /\ ~(measure.i < measure.numRequests)
    /\ measure' = [measure EXCEPT !.pc = "returned"]
    /\ UNCHANGED <<providerVars, requests, mappings, stats>>

\* measureLatency is called on a provider that exists (the default instance,
\* created when the module is loaded) with CONFIG.requestsPerModel and
\* CONFIG.concurrentRequests: what parseInt gives for the digits in the
\* environment variables, 0 included
NextMeasure ==
    \/ \E ollm \in ProviderIds, modelId \in PerfModelIds,
          numRequests \in 0..MaxNumRequests, concurrency \in 0..MaxConcurrency :
            MeasureLatency(ollm, modelId, numRequests, concurrency)
    \/ StartBatch
    \/ \E j \in 1..MaxConcurrency : Chunk(j)
    \/ \E j \in 1..MaxConcurrency : Complete(j)
    \/ \E j \in 1..MaxConcurrency : Fail(j)
    \/ BatchSettled
    \/ Return
SpecMeasure == Init /\ [][NextMeasure]_vars

\* every request issued settles, and measureLatency runs when it can
SpecMeasureFair == SpecMeasure /\ WF_measure(NextMeasure)

-----------------------------------------------------------------------------
(* perf/performance-test.ts: calculatePercentiles.  Times are whole numbers; *)
(* the average is the pair <<sum, count>>.                                   *)

\* the times measured
SampleValues == {1, 2, 3}

RECURSIVE ListsOfLen(_)
ListsOfLen(n) ==
    IF n = 0 THEN {<<>>}
    ELSE {Append(l, v) : l \in ListsOfLen(n - 1), v \in SampleValues}

\* lists long enough for the three percentiles to be three different
\* entries: descending ones and ones in a scrambled order
LongLists ==
    UNION {{[k \in 1..n |-> n + 1 - k], [k \in 1..n |-> ((k * 11) % n) + 1]} :
              n \in {20, 21}}

SampleLists == UNION {ListsOfLen(n) : n \in 0..MaxSamples} \cup LongLists

\* list with v put before the first entry greater than v (list ascending)
RECURSIVE insert(_, _)
insert(list, v) ==
    IF list = <<>> THEN <<v>>
    ELSE IF v < Head(list) THEN <<v>> \o list
    ELSE <<Head(list)>> \o insert(Tail(list), v)

\* [...latencies].sort((a, b) => a - b): a new array, ascending
RECURSIVE sort(_)
sort(list) ==
    IF list = <<>> THEN <<>>
    ELSE insert(sort(SubSeq(list, 1, Len(list) - 1)), list[Len(list)])

RECURSIVE sum(_)
sum(list) == IF list = <<>> THEN 0 ELSE Head(list) + sum(Tail(list))

\* faulty variant: the nearest-rank index ceil(len * percent / 100) - 1
percentileIndexNearestRank(len, percent) == (len * percent + 99) \div 100 - 1

\* Math.floor(len * 0.5), Math.floor(len * 0.95), Math.floor(len * 0.99):
\* for every len up to 200000 the double product has the floor of the
\* exact product
percentileIndex(len, percent) == (len * percent) \div 100

\* calculatePercentiles(latencies): what it returns, and the caller's array
\* after the call (array indices count from 0 in the code, from 1 here)
calculatePercentiles(latencies) ==
    IF Len(latencies) = 0
    THEN [value |-> [p50 |-> 0, p95 |-> 0, p99 |-> 0, min |-> 0, max |-> 0,
                     avg |-> <<0, 1>>],
          latencies |-> latencies]
    ELSE LET sorted == sort(latencies)
             len == Len(sorted)
         IN [value |-> [p50 |-> sorted[percentileIndex(len, 50) + 1],
                        p95 |-> sorted[percentileIndex(len, 95) + 1],
                        p99 |-> sorted[percentileIndex(len, 99) + 1],
                        min |-> sorted[1],
                        max |-> sorted[len],
                        avg |-> <<sum(latencies), len>>],
             latencies |-> latencies]

\* const stats = calculatePercentiles(result.latencies)
CalculatePercentiles(latencies) ==
    /\ stats.pc = "idle"
    /\ LET r == calculatePercentiles(latencies)
       IN stats' = [pc |-> "returned", given |-> latencies,
                    latencies |-> r.latencies, value |-> r.value]
    /\ UNCHANGED <<providerVars, requests, mappings, measure>>

NextStats == \E latencies \in SampleLists : CalculatePercentiles(latencies)
SpecStats == Init /\ [][NextStats]_vars

-----------------------------------------------------------------------------
(* Properties *)

ModelOps == {"provider", "chatModel", "languageModel", "completionModel"}
EmbeddingOps == {"embeddingModel", "textEmbeddingModel"}

\* the settings object provider p closes over
OptionsOf(p) == Get(providers[p]).options

\* no API key is resolvable for a provider with these options
NoKey(options) == ~IsSome(options.apiKey) /\ ~IsSome(env)

\* C1: createOLLM(settings) returns a provider and does not throw, for every
\* combination of the optional settings, the environment variable set or not
C1_CreateNeverThrows ==
    result.op = "createOLLM" =>
        /\ ~result.threw
        /\ result.value = result.p
        /\ Created(result.p)
        /\ OptionsOf(result.p) = result.arg

C1_Witness ==
    /\ result.op = "createOLLM" /\ result.p = "p1" /\ ~result.threw
    /\ ~IsSome(env)
    /\ IsSome(result.arg.baseURL) /\ IsSome(result.arg.headers)
    /\ IsSome(result.arg.fetch) /\ ~IsSome(result.arg.apiKey)

\* C2: with no apiKey setting and the environment variable unset, createOLLM
\* and the handle-creating members succeed; the missing-credential error is
\* raised only by a call of the header closure, and by every such call while
\* no key is resolvable
C2_MissingKeyOnlyAtHeaders ==
    /\ (result.op = "createOLLM" /\ NoKey(result.arg)) => ~result.threw
    /\ (result.op \in ModelOps /\ NoKey(OptionsOf(result.p))) =>
            ~result.threw /\ result.value = Len(handles)
    /\ result.error.name = "LoadAPIKeyError" => result.op = "headers"
    /\ (result.op = "headers" /\ NoKey(OptionsOf(result.p))) =>
            result.threw /\ result.error = LoadAPIKeyError

C2_Witness ==
    /\ result.op = "headers" /\ result.threw
    /\ NoKey(OptionsOf(result.p))
    /\ handles[result.arg].class = "OpenAICompatibleChatLanguageModel"

\* C3: embeddingModel(id) and textEmbeddingModel(id) throw NoSuchModelError
\* with modelId = id and modelType = "embeddingModel" in every state; they
\* build no handle and do not call the header closure
C3_EmbeddingThrown ==
    /\ result.op \in EmbeddingOps =>
            /\ result.threw
            /\ result.error = NoSuchModelError(result.arg, "embeddingModel")
            /\ "getHeaders" \notin effects
    /\ \A h \in 1..Len(handles) :
            handles[h].class \in {"OpenAICompatibleChatLanguageModel",
                                  "OpenAICompatibleCompletionLanguageModel"}

C3_EmbeddingAlwaysThrows ==
    /\ []C3_EmbeddingThrown
    /\ [][result'.op \in EmbeddingOps => handles' = handles]_vars

C3_Witness ==
    /\ result.op = "textEmbeddingModel" /\ result.threw
    /\ result.arg = "text-embedding-3-small"
    /\ NoKey(OptionsOf(result.p))
    /\ Len(handles) > 0

\* C4: embeddingModel(id) returns a handle with modelId = id and provider tag
\* "ollm.embedding", and textEmbeddingModel(id) a handle with modelId = id
C4_EmbeddingHandleReturned ==
    result.op \in EmbeddingOps =>
        /\ ~result.threw
        /\ result.value \in 1..Len(handles)
        /\ handles[result.value].modelId = result.arg
        /\ result.op = "embeddingModel" =>
                handles[result.value].provider = "ollm.embedding"

\* C5: imageModel(id) throws NoSuchModelError with modelId = id and
\* modelType = "imageModel" in every state, and builds no handle
C5_ImageThrown ==
    result.op = "imageModel" =>
        /\ result.threw
        /\ result.error = NoSuchModelError(result.arg, "imageModel")

C5_ImageAlwaysThrows ==
    /\ []C5_ImageThrown
    /\ [][result'.op = "imageModel" => handles' = handles]_vars

C5_Witness ==
    /\ result.op = "imageModel" /\ result.threw
    /\ result.p = "p1" /\ NoKey(OptionsOf("p1"))
    /\ Len(handles) > 0

\* C6: chatModel(id) returns a handle with modelId = id and provider tag
\* "ollm.chat", completionModel(id) one with modelId = id and provider tag
\* "ollm.completion", whatever the id
C6_HandleIdAndTag ==
    /\ result.op = "chatModel" =>
            /\ ~result.threw
            /\ result.value = Len(handles)
            /\ handles[result.value].modelId = result.arg
            /\ handles[result.value].provider = "ollm.chat"
    /\ result.op = "completionModel" =>
            /\ ~result.threw
            /\ result.value = Len(handles)
            /\ handles[result.value].modelId = result.arg
            /\ handles[result.value].provider = "ollm.completion"

C6_Witness ==
    /\ result.op = "completionModel" /\ ~result.threw
    /\ result.arg = "text-embedding-3-small"
    /\ handles[result.value].provider = "ollm.completion"

\* handle h has the model id, provider tag and url, header and transport
\* bindings of the handle chatModel(id) of provider p builds
SameAsChatModel(h, p, id) ==
    LET c == chatModel(p, id)
    IN /\ ~c.threw
       /\ h.modelId = c.value.modelId
       /\ h.provider = c.value.provider
       /\ h.provider = "ollm.chat"
       /\ h.url = c.value.url
       /\ h.headers = c.value.headers
       /\ h.fetch = c.value.fetch

\* C7: provider(id) builds a handle with the model id, the provider tag
\* "ollm.chat" and the url, header and transport bindings of chatModel(id)
C7_CallIsChatModel ==
    result.op = "provider" =>
        /\ ~result.threw
        /\ result.value = Len(handles)
        /\ SameAsChatModel(handles[result.value], result.p, result.arg)

C7_Witness ==
    /\ result.op = "provider" /\ ~result.threw /\ result.p = "p1"
    /\ IsSome(handles[result.value].fetch)
    /\ handles[result.value].modelId = "gpt-4o"

\* C8: languageModel(id) builds a handle with the model id and the provider
\* tag "ollm.chat" of chatModel(id): an alias of chatModel, not of
\* completionModel
C8_LanguageModelIsChatModel ==
    result.op = "languageModel" =>
        /\ ~result.threw
        /\ result.value = Len(handles)
        /\ handles[result.value].modelId = chatModel(result.p, result.arg).value.modelId
        /\ handles[result.value].modelId = result.arg
        /\ handles[result.value].provider = chatModel(result.p, result.arg).value.provider
        /\ handles[result.value].provider = "ollm.chat"
        /\ handles[result.value].class = "OpenAICompatibleChatLanguageModel"

C8_Witness ==
    /\ result.op = "languageModel" /\ ~result.threw
    /\ Len(handles) = 2
    /\ handles[1].provider = "ollm.completion"
    /\ handles[2].provider = "ollm.chat"
    /\ handles[1].modelId = handles[2].modelId

EndsWithSlash(url) == Len(url) > 0 /\ url[Len(url)] = "/"
EndsWithTwoSlashes(url) ==
    Len(url) > 1 /\ url[Len(url)] = "/" /\ url[Len(url) - 1] = "/"

\* the base URL provider p was given
GivenBaseURL(p) ==
    IF IsSome(OptionsOf(p).baseURL) THEN Get(OptionsOf(p).baseURL) ELSE defaultBaseURL

\* base URL `stored` is `given` less one slash at its end, if it has one
StrippedOnce(given, stored) ==
    IF EndsWithSlash(given) THEN Append(stored, "/") = given ELSE stored = given

\* C9: the resolved base URL is settings.baseURL with exactly one trailing
\* slash removed when it ends in a slash, and settings.baseURL otherwise;
\* "a/" resolves to "a" and a base URL ending in two slashes keeps one
C9_StrippedExactlyOnce ==
    /\ \A p \in ProviderIds : Created(p) =>
            /\ StrippedOnce(GivenBaseURL(p), Get(providers[p]).baseURL)
            /\ OptionsOf(p).baseURL = Some(<<"a", "/">>) =>
                    Get(providers[p]).baseURL = <<"a">>
            /\ EndsWithTwoSlashes(GivenBaseURL(p)) =>
                    EndsWithSlash(Get(providers[p]).baseURL)
    /\ \A h \in 1..Len(handles) :
            StrippedOnce(GivenBaseURL(handles[h].headers), handles[h].url)

C9_Witness ==
    /\ Created("p1")
    /\ OptionsOf("p1").baseURL = Some(<<"/", "/">>)
    /\ Get(providers["p1"]).baseURL = <<"/">>
    /\ \E h \in 1..Len(handles) : handles[h].headers = "p1" /\ handles[h].url = <<"/">>

\* C10 as stated: for every settings.baseURL the base URL stored in the
\* provider and bound to every handle's url builder never ends with a slash
C10_NeverTrailingSlash ==
    /\ \A p \in ProviderIds : Created(p) => ~EndsWithSlash(Get(providers[p]).baseURL)
    /\ \A h \in 1..Len(handles) : ~EndsWithSlash(handles[h].url)

\* C10 amended: the base URL stored in the provider and bound to every
\* handle's url builder ends with a slash exactly when settings.baseURL ends
\* in two or more slashes; for every other settings.baseURL ("/" and the
\* empty string included) and for the default it does not end with a slash
C10_TrailingSlashOnlyFromTwo ==
    /\ \A p \in ProviderIds : Created(p) =>
            (EndsWithSlash(Get(providers[p]).baseURL)
                <=> EndsWithTwoSlashes(GivenBaseURL(p)))
    /\ \A h \in 1..Len(handles) :
            (EndsWithSlash(handles[h].url)
                <=> EndsWithTwoSlashes(GivenBaseURL(handles[h].headers)))

C10_Witness ==
    /\ Created("p1")
    /\ OptionsOf("p1").baseURL = Some(<<"/">>)
    /\ Get(providers["p1"]).baseURL = <<>>
    /\ \E h \in 1..Len(handles) : handles[h].headers = "p1" /\ handles[h].url = <<>>
    /\ \E h \in 1..Len(handles) :
            handles[h].headers = "ollm" /\ handles[h].url = defaultBaseURL

IsPrefix(s, t) == Len(s) <= Len(t) /\ SubSeq(t, 1, Len(s)) = s

\* the characters of "http://localhost:4000/v1"
LocalhostV1 ==
    <<"h","t","t","p",":","/","/","l","o","c","a","l","h","o","s","t",":",
      "4","0","0","0","/","v","1">>

\* C11: without settings.baseURL every handle of the provider, the default
\* instance's included, builds its urls from "http://localhost:4000/v1"; a
\* settings.baseURL replaces that default entirely
C11_DefaultBaseIsLocalhost ==
    /\ \A p \in ProviderIds : Created(p) =>
            IF IsSome(OptionsOf(p).baseURL)
            THEN StrippedOnce(Get(OptionsOf(p).baseURL), Get(providers[p]).baseURL)
            ELSE Get(providers[p]).baseURL = LocalhostV1
    /\ \A h \in 1..Len(handles) :
            handles[h].url = Get(providers[handles[h].headers]).baseURL
    /\ result.op = "url" =>
            LET h == handles[result.arg[1]]
                path == result.arg[2]
            IN IF IsSome(OptionsOf(result.p).baseURL)
               THEN /\ result.value = withoutTrailingSlash(Get(OptionsOf(result.p).baseURL)) \o path
                    /\ ~IsPrefix(LocalhostV1, result.value)
               ELSE result.value = LocalhostV1 \o path

C11_Witness ==
    /\ result.op = "url" /\ result.p = "ollm"
    /\ result.value = LocalhostV1 \o <<"/", "c">>
    /\ \E h \in 1..Len(handles) :
            /\ handles[h].headers = "p1"
            /\ handles[h].url = <<"a">>

\* C12: without the baseURL option the provider's base URL is
\* "https://api.ollm.com/v1"
C12_DefaultBaseIsApiOllm ==
    \A p \in ProviderIds :
        (Created(p) /\ ~IsSome(OptionsOf(p).baseURL)) =>
            Get(providers[p]).baseURL = readmeBaseURL

\* the caller's headers, as entries
CallerEntries(options) ==
    IF IsSome(options.headers) THEN Get(options.headers) ELSE <<>>

\* the caller's headers have an entry for the header `lname` (lower case)
HasCallerHeader(options, lname) ==
    \E i \in 1..Len(CallerEntries(options)) :
        toLowerCase(CallerEntries(options)[i][1]) = lname

CallerHeader(options, lname) ==
    LET i == CHOOSE i \in 1..Len(CallerEntries(options)) :
                 toLowerCase(CallerEntries(options)[i][1]) = lname
    IN CallerEntries(options)[i][2]

\* the key by precedence: settings.apiKey, else the environment variable
ResolvedKey(options) == IF IsSome(options.apiKey) THEN options.apiKey ELSE env

\* C13 as stated: every header resolution yields Authorization =
\* "Bearer <key>", key being settings.apiKey when given and else the
\* environment variable, and never fails when settings.apiKey is given
C13_AuthorizationIsBearerKey ==
    result.op = "headers" =>
        LET options == OptionsOf(result.p)
        IN /\ IsSome(options.apiKey) =>
                /\ ~result.threw
                /\ result.value[NameLowerAuthorization] = <<"Bearer", Get(options.apiKey)>>
           /\ (~IsSome(options.apiKey) /\ IsSome(env)) =>
                /\ ~result.threw
                /\ result.value[NameLowerAuthorization] = <<"Bearer", Get(env)>>

\* C13 amended: the key is settings.apiKey when given and else the
\* environment variable; the resolution fails exactly when neither is there,
\* so never with settings.apiKey; and it yields Authorization =
\* "Bearer <key>" whenever the caller's headers have no Authorization entry
C13_KeyPrecedence ==
    result.op = "headers" =>
        LET options == OptionsOf(result.p)
        IN /\ result.threw <=> (~IsSome(options.apiKey) /\ ~IsSome(env))
           /\ (~result.threw /\ ~HasCallerHeader(options, NameLowerAuthorization)) =>
                result.value[NameLowerAuthorization] =
                    <<"Bearer", IF IsSome(options.apiKey) THEN Get(options.apiKey)
                                ELSE Get(env)>>

C13_Witness ==
    /\ result.op = "headers" /\ ~result.threw
    /\ OptionsOf(result.p).apiKey = Some("sk-1")
    /\ env = Some("env-1")
    /\ result.value[NameLowerAuthorization] = <<"Bearer", "sk-1">>

\* C14 as stated: whatever headers the caller supplies, the Authorization
\* header is "Bearer <resolved key>"; the caller's headers only add names
C14_CallerNeverReplacesAuthorization ==
    (result.op = "headers" /\ ~result.threw) =>
        LET options == OptionsOf(result.p)
        IN /\ result.value[NameLowerAuthorization] = <<"Bearer", Get(ResolvedKey(options))>>
           /\ \A i \in 1..Len(CallerEntries(options)) :
                toLowerCase(CallerEntries(options)[i][1]) \in DOMAIN result.value

\* C14 amended: the Authorization header is "Bearer <resolved key>" unless
\* the caller's headers have an Authorization entry (in any letter case),
\* whose value then replaces it; the caller's other headers only add names
C14_CallerAuthorizationWins ==
    (result.op = "headers" /\ ~result.threw) =>
        LET options == OptionsOf(result.p)
        IN /\ result.value[NameLowerAuthorization] =
                IF HasCallerHeader(options, NameLowerAuthorization)
                THEN CallerHeader(options, NameLowerAuthorization)
                ELSE <<"Bearer", Get(ResolvedKey(options))>>
           /\ DOMAIN result.value =
                {NameLowerAuthorization, NameLowerUserAgent} \cup
                {toLowerCase(CallerEntries(options)[i][1]) :
                     i \in 1..Len(CallerEntries(options))}

C14_Witness ==
    /\ result.op = "headers" /\ ~result.threw
    /\ OptionsOf(result.p).headers = Some(AuthorizationHeaders)
    /\ OptionsOf(result.p).apiKey = Some("sk-1")
    /\ result.value[NameLowerAuthorization] = <<"Basic", "caller">>
    /\ result.value[NameLowerXCustomHeader] = <<"custom-value">>

\* C15: every successful header resolution returns a User-Agent that ends
\* with "ai-sdk/ollm/1.0.0"; a User-Agent of the caller is kept in front of
\* it, and every other header of the caller is there with its value (header
\* names being compared without regard to letter case)
C15_UserAgentSuffix ==
    (result.op = "headers" /\ ~result.threw) =>
        LET options == OptionsOf(result.p)
            ua == result.value[NameLowerUserAgent]
        IN /\ Len(ua) > 0 /\ ua[Len(ua)] = "ai-sdk/ollm/1.0.0"
           /\ ua = (IF HasCallerHeader(options, NameLowerUserAgent)
                    THEN CallerHeader(options, NameLowerUserAgent) ELSE <<>>)
                   \o <<"ai-sdk/ollm/1.0.0">>
           /\ \A i \in 1..Len(CallerEntries(options)) :
                LET n == toLowerCase(CallerEntries(options)[i][1])
                IN n # NameLowerUserAgent =>
                       /\ n \in DOMAIN result.value
                       /\ result.value[n] = CallerEntries(options)[i][2]

C15_Witness ==
    /\ result.op = "headers" /\ ~result.threw
    /\ OptionsOf(result.p).headers = Some(UserAgentHeaders)
    /\ result.value[NameLowerUserAgent] = <<"my-app/1.0", "ai-sdk/ollm/1.0.0">>
    /\ result.value[NameLowerXCustomHeader] = <<"custom-value">>

\* C16: the key is resolved at every call of the header closure and never
\* cached: without settings.apiKey each call, also on a handle built before
\* the environment variable changed, uses the value the variable has at that
\* call, fails while it is unset and succeeds once it is set again
C16_KeyResolvedAtEachCall ==
    /\ (result.op = "headers" /\ ~IsSome(OptionsOf(result.p).apiKey)) =>
            IF IsSome(env)
            THEN /\ ~result.threw
                 /\ ~HasCallerHeader(OptionsOf(result.p), NameLowerAuthorization) =>
                        result.value[NameLowerAuthorization] = <<"Bearer", Get(env)>>
            ELSE result.threw /\ result.error = LoadAPIKeyError
    \* the default instance is built without settings
    /\ (result.op = "headers" /\ result.p = "ollm") =>
            IF IsSome(env)
            THEN ~result.threw /\ result.value[NameLowerAuthorization] = <<"Bearer", Get(env)>>
            ELSE result.threw /\ result.error = LoadAPIKeyError

C16_Witness ==
    /\ result.op = "headers" /\ ~result.threw
    /\ rotated
    /\ env = Some("env-2")
    /\ result.value[NameLowerAuthorization] = <<"Bearer", "env-2">>

\* C17 as stated: once createOLLM has returned, a change of the settings
\* object's apiKey, headers, baseURL or fetch changes neither the headers the
\* handles produce, nor their base URL, nor the transport of later handles
C17_SettingsCapturedOnce ==
    [][result'.op = "mutate" =>
          /\ getHeaders(OptionsOf("p1"))' = getHeaders(OptionsOf("p1"))
          /\ (Get(providers["p1"]).baseURL)' = Get(providers["p1"]).baseURL
          /\ handles' = handles
          /\ \A id \in ModelIds : chatModel("p1", id)' = chatModel("p1", id)]_vars

\* the headers and the transport follow the settings object as it is now
C17_ReadWhenUsed ==
    /\ result.op = "headers" =>
            LET options == OptionsOf(result.p)
            IN /\ result.threw <=> NoKey(options)
               /\ ~result.threw =>
                    /\ result.value[NameLowerAuthorization] =
                            IF HasCallerHeader(options, NameLowerAuthorization)
                            THEN CallerHeader(options, NameLowerAuthorization)
                            ELSE <<"Bearer", Get(ResolvedKey(options))>>
                    /\ \A i \in 1..Len(CallerEntries(options)) :
                            toLowerCase(CallerEntries(options)[i][1])
                                \in DOMAIN result.value
    /\ (result.op \in ModelOps /\ ~result.threw) =>
            handles[result.value].fetch = OptionsOf(result.p).fetch

\* C17 amended: only the base URL is captured when createOLLM is called: a
\* later change of the settings object changes the base URL of no handle,
\* built before or after it, and nothing of the handles built before it;
\* apiKey and headers are read from the settings object at every header
\* resolution and fetch at every handle construction, so the headers of all
\* handles and the transport of later handles follow the changed fields
C17_OnlyBaseURLCaptured ==
    /\ []C17_ReadWhenUsed
    /\ [][result'.op = "mutate" =>
            /\ (Get(providers["p1"]).baseURL)' = Get(providers["p1"]).baseURL
            /\ handles' = handles
            /\ \A id \in ModelIds :
                   chatModel("p1", id)'.value.url = chatModel("p1", id).value.url]_vars

C17_Witness ==
    /\ result.op = "headers" /\ ~result.threw
    /\ OptionsOf("p1").apiKey = Some("sk-2")
    /\ OptionsOf("p1").baseURL = Some(<<"b">>)
    /\ OptionsOf("p1").fetch = Some("otherFetch")
    /\ result.value[NameLowerAuthorization] = <<"Bearer", "sk-2">>
    /\ Len(handles) = 2
    /\ handles[1].fetch = Some("customFetch") /\ handles[1].url = <<"a">>
    /\ handles[2].fetch = Some("otherFetch") /\ handles[2].url = <<"a">>

\* the accessors that return a handle
HandleOps == {"provider", "chatModel", "languageModel", "completionModel"}

\* the provider tag and the model class of the handles an accessor builds
TagOf(op) == IF op = "completionModel" THEN "ollm.completion" ELSE "ollm.chat"
ClassOf(op) ==
    IF op = "completionModel" THEN "OpenAICompatibleCompletionLanguageModel"
    ELSE "OpenAICompatibleChatLanguageModel"

\* the handle an accessor of provider p has just returned is bound to p's
\* base URL, p's header closure and the transport of p's settings, and has
\* the tag and class of the accessor
C18_BuiltFromProvider ==
    result.op \in HandleOps =>
        /\ ~result.threw
        /\ LET h == handles[result.value]
           IN /\ h.url = Get(providers[result.p]).baseURL
              /\ h.headers = result.p
              /\ h.fetch = OptionsOf(result.p).fetch
              /\ h.provider = TagOf(result.op)
              /\ h.class = ClassOf(result.op)
              /\ h.modelId = result.arg

\* any two handles of one provider have the same base URL and transport
C18_Agree ==
    \A i, j \in 1..Len(handles) :
        handles[i].headers = handles[j].headers =>
            /\ handles[i].url = handles[j].url
            /\ handles[i].fetch = handles[j].fetch
            /\ handles[i].url = Get(providers[handles[i].headers]).baseURL
            /\ handles[i].fetch = OptionsOf(handles[i].headers).fetch

\* C18 as stated: all handles created through one provider, by provider(),
\* chatModel, languageModel or completionModel in any order, have the
\* provider's resolved base URL, its header closure and the transport
\* override of its settings; the accessors differ only in the provider tag
\* and the model class
C18_HandlesShareConfig == C18_BuiltFromProvider /\ C18_Agree

\* any two handles of one provider have the provider's resolved base URL
\* and its header closure
C18_AgreeOnURL ==
    \A i, j \in 1..Len(handles) :
        handles[i].headers = handles[j].headers =>
            /\ handles[i].url = handles[j].url
            /\ handles[i].url = Get(providers[handles[i].headers]).baseURL

\* C18 amended: all handles created through one provider, by any accessor
\* and in any order, have the provider's resolved base URL and its header
\* closure, and the accessors differ only in the provider tag and the model
\* class; the transport of a handle is the one the settings object holds
\* when the handle is created, and the handle keeps it.  Only the caller's
\* assignment changes the settings' fetch, so handles created with no such
\* assignment between them have the same transport, and handles created
\* before and after one differ in it
C18_TransportReadAtCreation ==
    /\ [](C18_BuiltFromProvider /\ C18_AgreeOnURL)
    /\ [][\A i \in 1..Len(handles) :
             i \in 1..Len(handles') /\ handles'[i] = handles[i]]_vars
    /\ [][(result'.op # "mutate" /\ Created("p1")) =>
             OptionsOf("p1").fetch' = OptionsOf("p1").fetch]_vars
    /\ [][(result.op \in HandleOps /\ result'.op \in HandleOps
            /\ result'.p = result.p /\ Len(handles') > Len(handles)) =>
             handles'[result'.value].fetch = handles[result.value].fetch]_vars

C18_Witness ==
    /\ Len(handles) = 2
    /\ result.op = "completionModel" /\ result.p = "p1" /\ result.value = 2
    /\ handles[1].class = "OpenAICompatibleChatLanguageModel"
    /\ handles[2].class = "OpenAICompatibleCompletionLanguageModel"
    /\ handles[1].headers = "p1" /\ handles[2].headers = "p1"
    /\ handles[1].url = <<"a">> /\ handles[2].url = <<"a">>
    /\ handles[1].fetch = Some("customFetch")
    /\ handles[2].fetch = Some("otherFetch")
    /\ OptionsOf("p1").fetch = Some("otherFetch")

\* C19: the URL builder of every handle maps a request path to the resolved
\* base URL of the handle's provider followed by the path, character for
\* character: nothing is inserted (no slash before a path without a leading
\* one) and nothing is removed
C19_UrlIsBaseThenPath ==
    result.op = "url" =>
        /\ ~result.threw
        /\ LET h    == handles[result.arg[1]]
               base == Get(providers[h.headers]).baseURL
               path == result.arg[2]
           IN /\ h.class \in {"OpenAICompatibleChatLanguageModel",
                               "OpenAICompatibleCompletionLanguageModel"}
              /\ Len(result.value) = Len(base) + Len(path)
              /\ \A i \in 1..Len(result.value) :
                    result.value[i] = IF i <= Len(base) THEN base[i]
                                      ELSE path[i - Len(base)]

C19_Witness ==
    /\ result.op = "url" /\ ~result.threw
    /\ handles[result.arg[1]].class = "OpenAICompatibleCompletionLanguageModel"
    /\ handles[result.arg[1]].url = <<"a">>
    /\ result.arg[2] = <<"c">>
    /\ result.value = <<"a", "c">>

\* the handle an accessor returns is the newest one
C20_ReturnsNewest ==
    result.op \in HandleOps => ~result.threw /\ result.value = Len(handles)

\* C20: every call of chatModel, languageModel, completionModel or provider()
\* constructs one new handle, distinct from every handle built before, also
\* from those with the same model id on the same provider, and leaves the
\* provider as it was: the provider keeps no record of its handles
C20_FreshHandleEachCall ==
    /\ []C20_ReturnsNewest
    /\ [][result'.op \in HandleOps =>
            /\ Len(handles') = Len(handles) + 1
            /\ result'.value \notin 1..Len(handles)
            /\ \A i \in 1..Len(handles) : handles'[i] = handles[i]
            /\ providers' = providers]_vars

C20_Witness ==
    /\ Len(handles) = 2
    /\ handles[1] = handles[2]
    /\ handles[1].modelId = "gpt-4o" /\ handles[1].headers = "p1"
    /\ result.op = "chatModel" /\ result.value = 2

\* what the header closure request r called returns when run alone
Alone(r) == getHeaders(OptionsFor(r))

\* every finished resolution has the outcome of a resolution run alone, in
\* an object no other resolution returned
C21_OwnFreshMapping ==
    \A r \in Requests :
        requests[r].pc = "done" =>
            /\ requests[r].out.threw = Alone(r).threw
            /\ ~requests[r].out.threw =>
                /\ requests[r].out.value \in 1..Len(mappings)
                /\ mappings[requests[r].out.value] = Alone(r).value
                /\ \A q \in Requests \ {r} :
                      (requests[q].pc = "done" /\ ~requests[q].out.threw)
                          => requests[q].out.value # requests[r].out.value

\* C21: header resolutions of one provider called by several requests in
\* flight together do not interfere (nor do those of different providers):
\* under every interleaving of their steps each returns a new mapping equal
\* to the one it returns when run alone, and no step of a resolution changes
\* the settings (their headers mapping included), the environment variable or
\* a mapping already returned
C21_ResolutionsDoNotInterfere ==
    /\ []C21_OwnFreshMapping
    /\ [][requests' # requests =>
            /\ providers' = providers
            /\ env' = env
            /\ \A i \in 1..Len(mappings) :
                   i \in 1..Len(mappings') /\ mappings'[i] = mappings[i]]_vars

\* two resolutions of one provider, on one handle: the second request was
\* issued while the first was in flight and got its mapping first
C21_Witness ==
    /\ requests[1].pc = "done" /\ requests[2].pc = "done"
    /\ requests[1].h = requests[2].h
    /\ handles[requests[1].h].headers = "p1"
    /\ OptionsOf("p1").headers = Some(UserAgentHeaders)
    /\ ~requests[1].out.threw /\ ~requests[2].out.threw
    /\ requests[2].out.value < requests[1].out.value
    /\ mappings[requests[1].out.value][NameLowerUserAgent] = <<"my-app/1.0", userAgentSuffix>>
    /\ mappings[requests[2].out.value] = mappings[requests[1].out.value]

IsString(v) == v.kind = "string"
AbsentOrString(v) == v.kind \in {"undefined", "string"}
AbsentNullOrString(v) == v.kind \in {"undefined", "null", "string"}

\* C22: every chat and completion handle has the OLLM error descriptor; it
\* accepts a body exactly when the body has an error object whose message is
\* a string, whose type is absent or a string and whose param and code are
\* each absent, null or a string, and for an accepted body the message
\* surfaced is error.message unchanged
C22_ErrorDescriptor ==
    /\ \A h \in 1..Len(handles) : handles[h].errorStructure = "ollmErrorStructure"
    /\ result.op = "parseError" =>
          LET body == result.arg[2]
              shaped == /\ body.kind = "object"
                        /\ body.error.kind = "object"
                        /\ IsString(body.error.message)
                        /\ AbsentOrString(body.error.type)
                        /\ AbsentNullOrString(body.error.param)
                        /\ AbsentNullOrString(body.error.code)
          IN /\ result.value.success <=> shaped
             /\ result.value.success => result.value.message = body.error.message.s

C22_Witness ==
    /\ result.op = "parseError" /\ result.value.success
    /\ handles[result.arg[1]].class = "OpenAICompatibleCompletionLanguageModel"
    /\ result.arg[2].error.param = Null
    /\ result.arg[2].error.code = String("m")
    /\ result.arg[2].error.type = Undefined
    /\ result.arg[2].error.status = Number
    /\ result.value.message = "m"

\* the last construction call returned and had no effect
C23_NoEffects ==
    result.op \in {"createOLLM"} \cup HandleOps =>
        /\ ~result.threw
        /\ effects \cap {"fetch", "getHeaders", "env"} = {}

\* C23: createOLLM, provider(), chatModel, languageModel and completionModel
\* only build closures and handles: none of them calls the transport, calls
\* the header closure or reads the environment variable, whatever the
\* settings and whether or not a key can be resolved
C23_ConstructionHasNoEffects ==
    /\ []C23_NoEffects
    /\ [][result'.op \in {"createOLLM"} \cup HandleOps =>
            env' = env /\ mappings' = mappings]_vars

C23_Witness ==
    /\ result.op = "languageModel" /\ result.p = "p1" /\ ~result.threw
    /\ NoKey(OptionsOf("p1"))
    /\ OptionsOf("p1").fetch = Some("customFetch")
    /\ effects = {}
    /\ Len(handles) = 2 /\ handles[1].headers = "ollm"

\* C24: every provider createOLLM returns, the default instance `ollm`
\* included, has specificationVersion "v3" and has chatModel,
\* completionModel, languageModel, embeddingModel, textEmbeddingModel and
\* imageModel as functions; the default instance exists from module load on,
\* built without an error also when the environment variable is unset
C24_ProviderShape ==
    /\ Created("ollm")
    /\ result.op = "createOLLM" => ~result.threw /\ Created(result.p)
    /\ \A p \in ProviderIds :
          Created(p) =>
            /\ Get(providers[p]).specificationVersion = "v3"
            /\ {"chatModel", "completionModel", "languageModel", "embeddingModel",
                "textEmbeddingModel", "imageModel"} \subseteq Get(providers[p]).members

C24_Witness ==
    /\ result.op = "createOLLM" /\ result.p = "ollm" /\ ~result.threw
    /\ ~IsSome(env)
    /\ ~Created("p1")
    /\ Get(providers["ollm"]).specificationVersion = "v3"
    /\ "imageModel" \in Get(providers["ollm"]).members

\* the entries of a list
Elements(list) == {list[k] : k \in 1..Len(list)}
NoDuplicates(list) == Cardinality(Elements(list)) = Len(list)

\* the requests issued so far: those of the batches before i, and the
\* current batch
Issued ==
    {id \in 0..(measure.numRequests + measure.concurrency) :
        \/ id < measure.i /\ id < measure.numRequests
        \/ \E j \in 1..Len(measure.promises) : measure.promises[j].id = id}

\* measureLatency with concurrency >= 1, while it runs and when it has returned
C25_Batches ==
    (measure.pc # "idle" /\ measure.concurrency >= 1) =>
        /\ Len(measure.promises) <= measure.concurrency
        /\ \A j \in 1..Len(measure.promises) :
              /\ measure.promises[j].id < measure.numRequests
              /\ measure.pc = "await" => measure.promises[j].id = measure.i + j - 1
        /\ NoDuplicates(measure.latencies \o measure.errors)
        /\ Elements(measure.latencies \o measure.errors) \subseteq Issued
        /\ Len(handles) = Cardinality(Issued)
        /\ \A h \in 1..Len(handles) :
              /\ handles[h].headers = measure.ollm
              /\ handles[h].modelId = measure.modelId
        /\ Elements(measure.ttftLatencies) \subseteq Elements(measure.latencies)
        /\ NoDuplicates(measure.ttftLatencies)
        /\ measure.pc = "for" =>
              Elements(measure.latencies \o measure.errors) =
                  {id \in 0..measure.numRequests :
                      id < measure.i /\ id < measure.numRequests}
        /\ measure.pc = "returned" =>
              /\ Elements(measure.latencies \o measure.errors) =
                     {id \in 0..measure.numRequests : id < measure.numRequests}
              /\ Len(measure.latencies) + Len(measure.errors) = measure.numRequests
              /\ Len(measure.ttftLatencies) <= Len(measure.latencies)

\* C25: measureLatency(numRequests, concurrency) with concurrency >= 1
\* issues the requests 0 .. numRequests-1 once each, in consecutive batches
\* of at most concurrency requests; a batch starts only when every request
\* of the batch before has settled; a request that fails records its error
\* and leaves the other requests running; on return latencies.length +
\* errors.length = numRequests and ttftLatencies.length <= latencies.length
C25_MeasureLatencyBatches ==
    /\ []C25_Batches
    /\ [][(measure.pc # "idle" /\ measure.concurrency >= 1) =>
            /\ (measure'.pc = "await" /\ measure.pc # "await") =>
                    /\ AllSettled(measure.promises)
                    /\ Len(measure'.promises) >= 1
            /\ Len(measure'.errors) > Len(measure.errors) =>
                    /\ measure'.pc = "await"
                    /\ measure'.latencies = measure.latencies
                    /\ \A j \in 1..Len(measure.promises) :
                          measure.promises[j].state = "settled"
                              => measure'.promises[j] = measure.promises[j]
                    /\ Cardinality({j \in 1..Len(measure.promises) :
                          measure'.promises[j] # measure.promises[j]}) = 1]_vars

C25_Witness ==
    /\ measure.pc = "returned"
    /\ measure.ollm = "ollm" /\ Len(handles) = 5
    /\ handles[5].url = defaultBaseURL
    /\ measure.numRequests = 5 /\ measure.concurrency = 2
    /\ measure.latencies = <<1, 2, 4>>
    /\ measure.errors = <<0, 3>>
    /\ measure.ttftLatencies = <<2>>

\* C26: measureLatency, once called with a non-negative numRequests and a
\* non-negative concurrency (0 included), returns, every request it issues
\* settling
C26_MeasureLatencyTerminates ==
    (measure.pc # "idle") ~> (measure.pc = "returned")

\* v is the entry at index k (from 0) of the ascending order of list
AtAscendingIndex(list, v, k) ==
    /\ v \in Elements(list)
    /\ Cardinality({n \in 1..Len(list) : list[n] < v}) <= k
    /\ Cardinality({n \in 1..Len(list) : list[n] <= v}) > k

\* C27: calculatePercentiles returns all zeros for an empty list; for a
\* non-empty list of n times p50, p95 and p99 are the entries at indices
\* floor(n*0.5), floor(n*0.95) and floor(n*0.99) of the ascending order, all
\* below n, with min <= p50 <= p95 <= p99 <= max; the list given is left
\* as it was
C27_Percentiles ==
    stats.pc = "returned" =>
        LET n == Len(stats.given)
            v == stats.value
        IN /\ stats.latencies = stats.given
           /\ n = 0 => /\ v.p50 = 0 /\ v.p95 = 0 /\ v.p99 = 0
                       /\ v.min = 0 /\ v.max = 0 /\ v.avg[1] = 0
           /\ n > 0 =>
                /\ (n * 50) \div 100 < n /\ (n * 95) \div 100 < n
                /\ (n * 99) \div 100 < n
                /\ AtAscendingIndex(stats.given, v.p50, (n * 50) \div 100)
                /\ AtAscendingIndex(stats.given, v.p95, (n * 95) \div 100)
                /\ AtAscendingIndex(stats.given, v.p99, (n * 99) \div 100)
                /\ AtAscendingIndex(stats.given, v.min, 0)
                /\ AtAscendingIndex(stats.given, v.max, n - 1)
                /\ v.min <= v.p50 /\ v.p50 <= v.p95
                /\ v.p95 <= v.p99 /\ v.p99 <= v.max

C27_Witness ==
    /\ stats.pc = "returned"
    /\ Len(stats.given) = 21
    /\ stats.given[1] = 12
    /\ stats.latencies = stats.given
    /\ stats.value.p50 = 11 /\ stats.value.p95 = 20 /\ stats.value.p99 = 21
    /\ stats.value.min = 1 /\ stats.value.max = 21

\* every handle has the bindings of the provider that built it, and a header
\* resolution on a handle is that of the handle's provider
C28_OwnBindings ==
    /\ \A h \in 1..Len(handles) :
          LET p == handles[h].headers
          IN /\ Created(p)
             /\ handles[h].url = Get(providers[p]).baseURL
             /\ handles[h].fetch = OptionsOf(p).fetch
    /\ result.op \in HandleOps => handles[result.value].headers = result.p
    /\ result.op = "headers" =>
          /\ result.p = handles[result.arg].headers
          /\ result.threw = getHeaders(OptionsOf(result.p)).threw
          /\ result.value = getHeaders(OptionsOf(result.p)).value

\* C28: providers are independent: a call on one provider or on one of its
\* handles (building handles, resolving headers, building urls, rejected
\* embedding and image requests), and the creation of another provider,
\* leave every other provider's base URL, settings, resolved headers, and
\* the configuration of the handles it builds unchanged, and leave every
\* existing handle as it was; a handle has the bindings of its own provider
C28_ProvidersIndependent ==
    /\ []C28_OwnBindings
    /\ [][result'.op # "setEnv" =>
            /\ \A h \in 1..Len(handles) : handles'[h] = handles[h]
            /\ \A q \in ProviderIds \ {result'.p} :
                  Created(q) =>
                    /\ providers'[q] = providers[q]
                    /\ getHeaders(OptionsOf(q))' = getHeaders(OptionsOf(q))
                    /\ \A id \in ModelIds :
                          /\ chatModel(q, id)' = chatModel(q, id)
                          /\ completionModel(q, id)' = completionModel(q, id)]_vars

C28_Witness ==
    /\ Created("p1")
    /\ OptionsOf("p1").baseURL = Some(<<"a", "/">>)
    /\ OptionsOf("p1").fetch = Some("customFetch")
    /\ OptionsOf("p1").apiKey = Some("sk-1")
    /\ Len(handles) = 2
    /\ handles[1].headers = "p1" /\ handles[2].headers = "ollm"
    /\ handles[1].url = <<"a">> /\ handles[2].url = defaultBaseURL
    /\ handles[1].fetch = Some("customFetch") /\ handles[2].fetch = None
    /\ handles[1].provider = "ollm.completion" /\ handles[2].provider = "ollm.chat"
    /\ result.op = "headers" /\ result.p = "ollm" /\ result.threw

====
